---- MODULE Spec2Model ----
(***************************************************************************)
(* Model of the WSDL crawler of X-Road-scripts (src/xrdinfo/               *)
(* xrd_all_wsdls.py): the worker pool around the work queue, the           *)
(* per-subsystem processing with its timeout circuit breaker, the          *)
(* content-addressed WSDL store (hash_wsdls / save_wsdl) and the report    *)
(* files (snapshots, latest aliases, history).                             *)
(*                                                                         *)
(* Abstractions.  A subsystem is a number (its position in the document);  *)
(* a method identifier (serviceCode, serviceVersion) is a number and the   *)
(* order of the numbers is the order of sorted().  A WSDL document is a    *)
(* content number; md5 is taken to be collision free on the documents of   *)
(* the model.  A file "<N>.wsdl" is named by the number N.  The storage    *)
(* path of a subsystem (stringify of its identifier) and the keys of the   *)
(* result map and of the method index are named by the subsystem and the   *)
(* method themselves: distinct subsystems have distinct paths.             *)
(*                                                                         *)
(* Specifications.  Spec: one run of the crawler, all threads interleaved. *)
(* WorkerSpec: the same run with one worker and one subsystem.  StoreSpec: *)
(* hash_wsdls and save_wsdl on one directory over successive runs.         *)
(* ReportSpec: the report files over successive runs, the crawl of a run   *)
(* taken as one step.  PoolSpec: a run with two workers on two subsystems. *)
(*                                                                         *)
(* The xrdinfo library (src/xrdinfo-src/xrdinfo/__init__.py and            *)
(* src/xrdinfo/xrdinfo.py) is modelled by operators on its inputs; the     *)
(* variable lib holds the input and the outcome of one call.  SoapSpec:    *)
(* soap_request, methods and wsdl on any response.  AritySpec: the         *)
(* identifier checks of methods.  DirectorySpec: registered_subsystems    *)
(* and subsystems_with_server on any directory document.  IdentifierSpec:  *)
(* identifier and identifier_parts.  RestSpec: rest_get_request and the    *)
(* request of openapi on any response.                                     *)
(***************************************************************************)
EXTENDS Integers, Sequences, FiniteSets, TLC

\* ------------------------------------------------------------------ bounds
NumSubsystems == 3
MaxThreads == 2
MaxRuns == 3
MaxSaves == 4
MaxTick == 3
TicksPerSecond == 2
MaxTokens == 4
MaxArity == 5
MaxServers == 2
MaxParts == 3

Subsystems == 1..NumSubsystems
Workers == 1..MaxThreads
Methods == {1, 2, 3}
Contents == {1, 2, 3}

\* What a listMethods response may list, in document order (unsorted,
\* possibly with a repeated identifier).  The server of subsystem 1 offers
\* up to three services, the servers of the others at most one.
RawLists == {<<>>, <<1>>, <<2, 1>>, <<1, 1>>, <<3, 1, 2>>}
ShortLists == {<<>>, <<1>>}
ListMethodsResponses(s) == IF s = 1 THEN RawLists ELSE ShortLists

\* Subsystem directories a run may find on disk: file number -> content.
InitDirs == {<<>>, [n \in {0} |-> 2], [n \in {3} |-> 1]}

\* ------------------------------------------------------- values and cells
Cell(k, f) == [kind |-> k, file |-> f]
Absent == Cell("ABSENT", -1)
Timeout == Cell("TIMEOUT", -1)
Skipped == Cell("SKIPPED", -1)
Error == Cell("ERROR", -1)
Path(name) == Cell("PATH", name)

EmptyIndex == [m \in Methods |-> Absent]
NoResult == [present |-> FALSE, ok |-> FALSE, methods |-> EmptyIndex]
ResultOf(ok, index) == [present |-> TRUE, ok |-> ok, methods |-> index]

Max(S) == CHOOSE x \in S : \A y \in S : y <= x

\* sorted(): insertion of each element into an ordered sequence.
RECURSIVE Insert(_, _)
Insert(x, s) ==
    IF s = <<>> THEN <<x>>
    ELSE IF x <= Head(s) THEN <<x>> \o s
    ELSE <<Head(s)>> \o Insert(x, Tail(s))

RECURSIVE Sorted(_)
Sorted(s) == IF s = <<>> THEN <<>> ELSE Insert(Head(s), Sorted(Tail(s)))

\* ------------------------------------------------- content-addressed store
MD5(c) == (c * 37 + 11) % 101

\* Mutant: the files are hashed after a line ending conversion.
HashWsdlsConverted(dir) == [n \in DOMAIN dir |-> MD5(dir[n]) + 1]

HashWsdls(dir) == [n \in DOMAIN dir |-> MD5(dir[n])]

\* Mutant: the new file takes the largest number of the index.
SaveWsdlAtMax(hashes, wsdl) ==
    LET matching == {n \in DOMAIN hashes : hashes[n] = MD5(wsdl)}
        new_file == Max(DOMAIN hashes \cup {0})
    IN  IF matching # {}
        THEN {[name |-> n, hashes |-> hashes, wrote |-> FALSE] : n \in matching}
        ELSE {[name |-> new_file,
               hashes |-> [n \in DOMAIN hashes \cup {new_file} |->
                              IF n = new_file THEN MD5(wsdl) ELSE hashes[n]],
               wrote |-> TRUE]}

\* Mutant: the new file is not recorded in the index.
SaveWsdlUnrecorded(hashes, wsdl) ==
    LET matching == {n \in DOMAIN hashes : hashes[n] = MD5(wsdl)}
    IN  IF matching # {}
        THEN {[name |-> n, hashes |-> hashes, wrote |-> FALSE] : n \in matching}
        ELSE {[name |-> Max(DOMAIN hashes \cup {-1}) + 1, hashes |-> hashes,
               wrote |-> TRUE]}

\* The possible results of save_wsdl(path, hashes, wsdl): the name, the
\* index returned, and the file written (wrote) with its number.  The dict
\* is walked in its own order, so with several matching entries any of them
\* may be returned.
SaveWsdl(hashes, wsdl) ==
    LET matching == {n \in DOMAIN hashes : hashes[n] = MD5(wsdl)}
        max_wsdl == Max(DOMAIN hashes \cup {-1})
        new_file == max_wsdl + 1
    IN  IF matching # {}
        THEN {[name |-> n, hashes |-> hashes, wrote |-> FALSE] : n \in matching}
        ELSE {[name |-> new_file,
               hashes |-> [n \in DOMAIN hashes \cup {new_file} |->
                              IF n = new_file THEN MD5(wsdl) ELSE hashes[n]],
               wrote |-> TRUE]}

\* open(path/new_file, 'wb').write(wsdl)
WriteFile(dir, name, wsdl) ==
    [n \in DOMAIN dir \cup {name} |-> IF n = name THEN wsdl ELSE dir[n]]

\* wsdl_methods(doc): the operations yielded, and whether the generator
\* raises XrdInfoError after them.
WsdlMethods(c) ==
    CASE c = 1 -> [ops |-> <<1, 2>>, fails |-> FALSE]
      [] c = 2 -> [ops |-> <<3>>, fails |-> FALSE]
      [] OTHER -> [ops |-> <<1>>, fails |-> TRUE]

RECURSIVE IndexOps(_, _, _)
IndexOps(index, ops, value) ==
    IF ops = <<>> THEN index
    ELSE IndexOps([index EXCEPT ![Head(ops)] = value], Tail(ops), value)

VARIABLES
    thread_cnt,     \* params['thread_cnt']
    registered,     \* what registered_subsystems(shared_params) yields
    mpc,            \* position of the main thread
    started,        \* number of worker threads started
    toPut,          \* next registered subsystem to put on the queue
    work_queue,     \* params['work_queue']: the queued items
    unfinished,     \* work_queue.unfinished_tasks
    shutdown,       \* params['shutdown']
    results,        \* params['results']
    results_lock,   \* params['results_lock']: 0 or the holding worker
    wpc,            \* position of each worker thread
    subsystem,      \* worker local: the dequeued subsystem
    hashes,         \* worker local: the hash index
    method_index,   \* worker local
    skip_methods,   \* worker local
    todo,           \* worker local: the rest of the sorted method list
    store,          \* disk: the directory of each subsystem
    files,          \* disk: the report files of the output directory
    now,            \* wall clock, in ticks
    run,            \* number of the current run on the output directory
    dequeues,       \* history: how often each subsystem was dequeued
    fetchlog,       \* history: the getWsdl requests of each subsystem
    listed,         \* history: the outcome of listMethods per subsystem
    saves,          \* history: the save_wsdl calls made since the last scan
    resolved,       \* history: the names each content was ever resolved to
    lib             \* a call of the library: its arguments and its outcome

vars == <<thread_cnt, registered, mpc, started, toPut, work_queue, unfinished, shutdown,
          results, results_lock, wpc, subsystem, hashes, method_index,
          skip_methods, todo, store, files, now, run, dequeues, fetchlog,
          listed, saves, resolved, lib>>

mainVars == <<mpc, started, toPut>>
queueVars == <<work_queue, unfinished>>
localVars == <<subsystem, hashes, method_index, skip_methods, todo>>
diskVars == <<store, files>>
histVars == <<dequeues, fetchlog, listed, saves, resolved>>

NoFiles == [snap_html |-> <<>>, snap_json |-> <<>>, index_html |-> <<>>,
            index_json |-> <<>>, history |-> <<>>]

NotListed == [state |-> "none", list |-> <<>>]

\* No library call is under study.
LibIdle == [op |-> "none", input |-> <<>>, result |-> <<>>]

\* The state of a fresh process (params of main, no thread started).
ProcessInit ==
    /\ mpc = "start"
    /\ started = 0
    /\ toPut = 1
    /\ work_queue = <<>>
    /\ unfinished = 0
    /\ shutdown = FALSE
    /\ results = [s \in Subsystems |-> NoResult]
    /\ results_lock = 0
    /\ wpc = [w \in Workers |-> "unstarted"]
    /\ subsystem = [w \in Workers |-> 0]
    /\ hashes = [w \in Workers |-> <<>>]
    /\ method_index = [w \in Workers |-> EmptyIndex]
    /\ skip_methods = [w \in Workers |-> FALSE]
    /\ todo = [w \in Workers |-> <<>>]
    /\ dequeues = [s \in Subsystems |-> 0]
    /\ fetchlog = [s \in Subsystems |-> <<>>]
    /\ listed = [s \in Subsystems |-> NotListed]
    /\ saves = <<>>
    /\ resolved = [s \in Subsystems |-> [c \in Contents |-> {}]]

\* A first run over all subsystems of the directory, with one to MaxThreads
\* worker threads; subsystem 1 has a directory of an earlier crawl.
Init ==
    /\ ProcessInit
    /\ lib = LibIdle
    /\ thread_cnt \in 1..MaxThreads
    /\ registered = [i \in 1..NumSubsystems |-> i]
    /\ store = [s \in Subsystems |-> IF s = 1 THEN [n \in {0} |-> 2] ELSE <<>>]
    /\ files = NoFiles
    /\ now = 0
    /\ run = 1

\* ------------------------------------------------------------ worker thread
CurrentDir(w) == store[subsystem[w]]

\* What a getWsdl exchange (xrdinfo.wsdl) may end in: RequestTimeoutError,
\* another XrdInfoError, a return without a document (None), a document.
FetchOutcomes ==
    {[kind |-> k, doc |-> 0] : k \in {"timeout", "error", "none"}}
        \cup {[kind |-> "doc", doc |-> c] : c \in Contents}

\* Mutant: the item is read but left on the queue.
WorkerGetPeek(w) ==
    /\ wpc[w] = "get"
    /\ work_queue # <<>>
    /\ subsystem' = [subsystem EXCEPT ![w] = Head(work_queue)]
    /\ work_queue' = work_queue
    /\ wpc' = [wpc EXCEPT ![w] = "prepare"]
    /\ dequeues' = [dequeues EXCEPT ![Head(work_queue)] = @ + 1]
    /\ UNCHANGED <<lib, thread_cnt, registered, mainVars, unfinished, shutdown, results,
                   results_lock, hashes, method_index, skip_methods, todo,
                   diskVars, now, run, fetchlog, listed, saves, resolved>>

\* work_queue.get(True, 0.1) returns an item.
WorkerGet(w) ==
    /\ wpc[w] = "get"
    /\ work_queue # <<>>
    /\ subsystem' = [subsystem EXCEPT ![w] = Head(work_queue)]
    /\ work_queue' = Tail(work_queue)
    /\ wpc' = [wpc EXCEPT ![w] = "prepare"]
    /\ dequeues' = [dequeues EXCEPT ![Head(work_queue)] = @ + 1]
    /\ UNCHANGED <<lib, thread_cnt, registered, mainVars, unfinished, shutdown, results,
                   results_lock, hashes, method_index, skip_methods, todo,
                   diskVars, now, run, fetchlog, listed, saves, resolved>>

\* work_queue.get(True, 0.1) raises queue.Empty.
WorkerEmpty(w) ==
    /\ wpc[w] = "get"
    /\ work_queue = <<>>
    /\ wpc' = [wpc EXCEPT ![w] = "empty"]
    /\ UNCHANGED <<lib, thread_cnt, registered, mainVars, queueVars, shutdown, results,
                   results_lock, localVars, diskVars, now, run, histVars>>

\* The handler of queue.Empty: return when shutdown is set, else poll again.
WorkerCheckShutdown(w) ==
    /\ wpc[w] = "empty"
    /\ wpc' = [wpc EXCEPT ![w] = IF shutdown THEN "returned" ELSE "get"]
    /\ UNCHANGED <<lib, thread_cnt, registered, mainVars, queueVars, shutdown, results,
                   results_lock, localVars, diskVars, now, run, histVars>>

\* makedirs(wsdl_path): os.makedirs cannot fail to leave the directory
\* behind when it holds files already; otherwise it may, and makedirs then
\* calls exit(0).
MakedirsMayFail(dir) == dir = <<>>

\* Lines 139-145: the storage path, makedirs, hash_wsdls, the fresh locals.
\* exit(0) raises SystemExit, which no except clause of the worker catches:
\* only the finally clause runs and the thread ends.  A failure of
\* os.listdir or open in hash_wsdls is an OSError, caught as Exception.
WorkerPrepare(w) ==
    /\ wpc[w] = "prepare"
    /\ \E outcome \in {"ok", "exit", "oserror"} :
        /\ outcome = "exit" => MakedirsMayFail(CurrentDir(w))
        /\ wpc' = [wpc EXCEPT ![w] =
                     CASE outcome = "ok" -> "discover"
                       [] outcome = "exit" -> "task_done_exit"
                       [] OTHER -> "merge_err"]
        /\ hashes' = [hashes EXCEPT ![w] =
                        IF outcome = "ok" THEN HashWsdls(CurrentDir(w)) ELSE @]
    /\ method_index' = [method_index EXCEPT ![w] = EmptyIndex]
    /\ skip_methods' = [skip_methods EXCEPT ![w] = FALSE]
    /\ UNCHANGED <<lib, thread_cnt, registered, mainVars, queueVars, shutdown, results,
                   results_lock, subsystem, todo, diskVars, now, run,
                   histVars>>

\* Lines 146-149: sorted(xrdinfo.methods(...)) consumes the whole response
\* before the first method is processed; any failure is an XrdInfoError.
WorkerDiscover(w) ==
    /\ wpc[w] = "discover"
    /\ \/ /\ wpc' = [wpc EXCEPT ![w] = "merge_err"]
          /\ listed' = [listed EXCEPT ![subsystem[w]] =
                          [state |-> "fail", list |-> <<>>]]
          /\ todo' = todo
       \/ \E raw \in ListMethodsResponses(subsystem[w]) :
          /\ wpc' = [wpc EXCEPT ![w] = "loop"]
          /\ listed' = [listed EXCEPT ![subsystem[w]] =
                          [state |-> "ok", list |-> raw]]
          /\ todo' = [todo EXCEPT ![w] = Sorted(raw)]
    /\ UNCHANGED <<lib, thread_cnt, registered, mainVars, queueVars, shutdown, results,
                   results_lock, subsystem, hashes, method_index,
                   skip_methods, diskVars, now, run, dequeues, fetchlog,
                   saves, resolved>>

\* Mutant: only the requested method is indexed.
IndexDocumentRequestedOnly(index, method, wsdl, name) ==
    [index EXCEPT ![method] = Path(name)]

\* Lines 182-193: the method index after a document was saved under `name`.
IndexDocument(index, method, wsdl, name) ==
    LET parsed == WsdlMethods(wsdl)
        indexed == IndexOps(index, parsed.ops, Path(name))
    IN  IF parsed.fails THEN [indexed EXCEPT ![method] = Error] ELSE indexed

\* Mutant: the timeout is recorded but skip_methods is not set.
OnTimeoutNoBreaker(index, method) ==
    [index |-> [index EXCEPT ![method] = Timeout], skip |-> FALSE]

\* Lines 167-174: the index and the skip flag after RequestTimeoutError.
OnTimeout(index, method) ==
    [index |-> [index EXCEPT ![method] = Timeout], skip |-> TRUE]

\* Mutant: a skipped method is recorded as timed out.
OnSkipAsTimeout(index, method) == [index EXCEPT ![method] = Timeout]

\* Lines 154-161: the index after a method was skipped.
OnSkip(index, method) == [index EXCEPT ![method] = Skipped]

\* Mutant: every failed fetch trips the circuit breaker.
OnErrorTrips(index, method, skip) ==
    [index |-> [index EXCEPT ![method] = Error], skip |-> TRUE]

\* Lines 175-180: the index and the skip flag after another XrdInfoError.
OnError(index, method, skip) ==
    [index |-> [index EXCEPT ![method] = Error], skip |-> skip]

\* The record kept of one save_wsdl call.
SaveRecord(before, wsdl, r) ==
    [content |-> wsdl, name |-> r.name, wrote |-> r.wrote,
     known |-> \E n \in DOMAIN before : before[n] = MD5(wsdl),
     changed |-> r.hashes # before \/ r.wrote]

Resolve(res, s, wsdl, name) == [res EXCEPT ![s][wsdl] = @ \cup {name}]

\* Mutant: the index is not consulted before a request.
AlreadyIndexedNever(index, method) == FALSE

\* Line 150: stringify(method) in method_index.
AlreadyIndexed(index, method) == index[method] # Absent

\* One pass of the loop body (lines 150-193) for the next method.
WorkerMethod(w) ==
    /\ wpc[w] = "loop"
    /\ todo[w] # <<>>
    /\ LET method == Head(todo[w])
           s == subsystem[w]
           Continue(index, skip) ==
               /\ method_index' = [method_index EXCEPT ![w] = index]
               /\ skip_methods' = [skip_methods EXCEPT ![w] = skip]
               /\ todo' = [todo EXCEPT ![w] = Tail(@)]
               /\ wpc' = wpc
       IN  IF AlreadyIndexed(method_index[w], method)
           THEN /\ Continue(method_index[w], skip_methods[w])
                /\ UNCHANGED <<hashes, store, fetchlog, resolved>>
           ELSE IF skip_methods[w]
           THEN /\ Continue(OnSkip(method_index[w], method), TRUE)
                /\ UNCHANGED <<hashes, store, fetchlog, resolved>>
           ELSE \E out \in FetchOutcomes :
                /\ fetchlog' = [fetchlog EXCEPT ![s] =
                       Append(@, [method |-> method, kind |-> out.kind,
                                  doc |-> out.doc])]
                /\ CASE out.kind = "timeout" ->
                          /\ Continue(OnTimeout(method_index[w], method).index,
                                      OnTimeout(method_index[w], method).skip)
                          /\ UNCHANGED <<hashes, store, resolved>>
                     [] out.kind = "error" ->
                          /\ Continue(OnError(method_index[w], method,
                                              skip_methods[w]).index,
                                      OnError(method_index[w], method,
                                              skip_methods[w]).skip)
                          /\ UNCHANGED <<hashes, store, resolved>>
                     [] out.kind = "none" ->
                          \* save_wsdl: None has no encode (AttributeError)
                          /\ wpc' = [wpc EXCEPT ![w] = "merge_err"]
                          /\ UNCHANGED <<hashes, store, resolved, method_index,
                                         skip_methods, todo>>
                     [] OTHER ->
                          \E r \in SaveWsdl(hashes[w], out.doc) :
                            /\ hashes' = [hashes EXCEPT ![w] = r.hashes]
                            /\ store' = IF r.wrote
                                 THEN [store EXCEPT ![s] =
                                          WriteFile(@, r.name, out.doc)]
                                 ELSE store
                            /\ resolved' = Resolve(resolved, s, out.doc, r.name)
                            /\ Continue(IndexDocument(method_index[w], method,
                                                      out.doc, r.name),
                                        skip_methods[w])
    /\ UNCHANGED <<lib, thread_cnt, registered, mainVars, queueVars, shutdown,
                   results, results_lock, subsystem, files, now, run,
                   dequeues, listed, saves>>

\* The for loop is exhausted: on to the merge of line 195.
WorkerLoopEnd(w) ==
    /\ wpc[w] = "loop"
    /\ todo[w] = <<>>
    /\ wpc' = [wpc EXCEPT ![w] = "merge_ok"]
    /\ UNCHANGED <<lib, thread_cnt, registered, mainVars, queueVars, shutdown, results,
                   results_lock, localVars, diskVars, now, run, histVars>>

\* Mutant: the merge is entered without waiting for the lock.
WorkerLockNoWait(w) ==
    /\ wpc[w] \in {"merge_ok", "merge_err"}
    /\ results_lock' = w
    /\ wpc' = [wpc EXCEPT ![w] = IF @ = "merge_ok" THEN "write_ok" ELSE "write_err"]
    /\ UNCHANGED <<lib, thread_cnt, registered, mainVars, queueVars, shutdown, results,
                   localVars, diskVars, now, run, histVars>>

\* with params['results_lock']: acquire.
WorkerLock(w) ==
    /\ wpc[w] \in {"merge_ok", "merge_err"}
    /\ results_lock = 0
    /\ results_lock' = w
    /\ wpc' = [wpc EXCEPT ![w] = IF @ = "merge_ok" THEN "write_ok" ELSE "write_err"]
    /\ UNCHANGED <<lib, thread_cnt, registered, mainVars, queueVars, shutdown, results,
                   localVars, diskVars, now, run, histVars>>

\* Mutant: the index built so far is stored with an error entry.
MergedResultKeepsIndex(ok, index) == ResultOf(ok, index)

\* Mutant: every entry is stored as ok.
MergedResultAlwaysOk(ok, index) == ResultOf(TRUE, index)

\* The entry stored by lines 196-198 (ok) and 201-203, 209-211 (error).
MergedResult(ok, index) == ResultOf(ok, IF ok THEN index ELSE EmptyIndex)

\* params['results'][wsdl_rel_path] = {...}, and the lock is released.
WorkerMerge(w) ==
    /\ wpc[w] \in {"write_ok", "write_err"}
    /\ results_lock = w
    /\ results' = [results EXCEPT ![subsystem[w]] =
                      MergedResult(wpc[w] = "write_ok", method_index[w])]
    /\ results_lock' = 0
    /\ wpc' = [wpc EXCEPT ![w] = "task_done"]
    /\ UNCHANGED <<lib, thread_cnt, registered, mainVars, queueVars, shutdown, localVars,
                   diskVars, now, run, histVars>>

\* finally: work_queue.task_done(); then the next pass of while True, or
\* the end of the thread when SystemExit is on its way out.  The locals are
\* dead from here on: they are assigned again before they are read.
WorkerTaskDone(w) ==
    /\ wpc[w] \in {"task_done", "task_done_exit"}
    /\ unfinished' = unfinished - 1
    /\ wpc' = [wpc EXCEPT ![w] = IF @ = "task_done" THEN "get" ELSE "dead"]
    /\ subsystem' = [subsystem EXCEPT ![w] = 0]
    /\ hashes' = [hashes EXCEPT ![w] = <<>>]
    /\ method_index' = [method_index EXCEPT ![w] = EmptyIndex]
    /\ skip_methods' = [skip_methods EXCEPT ![w] = FALSE]
    /\ todo' = [todo EXCEPT ![w] = <<>>]
    /\ UNCHANGED <<lib, thread_cnt, registered, mainVars, work_queue, shutdown, results,
                   results_lock, diskVars, now, run, histVars>>

Worker(w) ==
    \/ WorkerGet(w)
    \/ WorkerEmpty(w)
    \/ WorkerCheckShutdown(w)
    \/ WorkerPrepare(w)
    \/ WorkerDiscover(w)
    \/ WorkerMethod(w)
    \/ WorkerLoopEnd(w)
    \/ WorkerLock(w)
    \/ WorkerMerge(w)
    \/ WorkerTaskDone(w)

\* -------------------------------------------------------------- report files
RECURSIVE Ascending(_)
Ascending(S) ==
    IF S = {} THEN <<>>
    ELSE LET least == CHOOSE x \in S : \A y \in S : x <= y
         IN  <<least>> \o Ascending(S \ {least})

\* Mutant: the method index is not looked at.
SubsystemStatusByOk(result) == IF result.ok THEN "ok" ELSE "error"

\* Lines 341-349: the status shown for a subsystem.
SubsystemStatus(result) ==
    IF result.ok /\ \E m \in Methods : result.methods[m] # Absent THEN "ok"
    ELSE IF result.ok THEN "empty"
    ELSE "error"

\* Lines 377-396: the status reported for a method index value.
MethodStatus(cell) ==
    IF cell = Skipped THEN "SKIPPED"
    ELSE IF cell = Timeout THEN "TIMEOUT"
    ELSE IF cell.kind = "PATH" THEN "OK"
    ELSE "ERROR"

JsonMethods(index) ==
    LET keys == Ascending({m \in Methods : index[m] # Absent})
    IN  [i \in 1..Len(keys) |->
            [method |-> keys[i],
             methodStatus |-> MethodStatus(index[keys[i]]),
             wsdl |-> IF MethodStatus(index[keys[i]]) = "OK"
                      THEN index[keys[i]].file ELSE -1]]

\* Lines 332-403: json_data, one element per key of results, sorted.
RenderJson(res) ==
    LET keys == Ascending({s \in Subsystems : res[s].present})
    IN  [i \in 1..Len(keys) |->
            [subsystem |-> keys[i],
             subsystemStatus |-> IF SubsystemStatus(res[keys[i]]) = "error"
                                 THEN "ERROR" ELSE "OK",
             methods |-> JsonMethods(res[keys[i]].methods)]]

\* Lines 334-402: the cards of the HTML body.
RenderBody(res) ==
    LET keys == Ascending({s \in Subsystems : res[s].present})
    IN  [i \in 1..Len(keys) |->
            [subsystem |-> keys[i],
             badge |-> SubsystemStatus(res[keys[i]]),
             methods |-> JsonMethods(res[keys[i]].methods)]]

\* time.strftime('%Y%m%d%H%M%S', report_time): whole seconds.
Suffix(t) == t \div TicksPerSecond

Line(tag, n) == [tag |-> tag, n |-> n]
HISTORY_HEADER == Line("h1", 0)
HistoryItem(suffix) == Line("item", suffix)
\* HISTORY_HTML_TEMPL.format(body=history_item), line by line.
HistoryTemplate(item) ==
    [i \in 1..11 |-> Line("head", i)] \o <<HISTORY_HEADER, item>>
        \o [i \in 1..3 |-> Line("tail", i)]

\* Mutant: the item is appended to the end of the file.
InsertItemAtEnd(lines, item) == lines \o <<item>>

\* Lines 430-437: every line is copied, the item follows each line equal
\* to HISTORY_HEADER.
RECURSIVE InsertItem(_, _)
InsertItem(lines, item) ==
    IF lines = <<>> THEN <<>>
    ELSE (IF Head(lines) = HISTORY_HEADER
          THEN <<Head(lines), item>> ELSE <<Head(lines)>>)
         \o InsertItem(Tail(lines), item)

\* Lines 429-440: the new text of history.html (IOError: no such file).
NewHistory(old, item) ==
    IF old = <<>> THEN HistoryTemplate(item) ELSE InsertItem(old, item)

\* open(path, 'w').write(text) on index_<suffix>.*
WriteSnapshot(snaps, suffix, text) ==
    [x \in DOMAIN snaps \cup {suffix} |-> IF x = suffix THEN text ELSE snaps[x]]

\* Mutant: the first snapshot of the directory is copied.
CopyFirst(snaps, suffix) ==
    <<snaps[CHOOSE x \in DOMAIN snaps : \A y \in DOMAIN snaps : x <= y]>>

\* shutil.copy(index_<suffix>.*, index.*)
CopyLatest(snaps, suffix) == <<snaps[suffix]>>

\* Lines 405-450: the files of the output directory after the report.
ReportFiles(old, res, suffix) ==
    LET html == [report_time |-> suffix, suffix |-> suffix,
                 body |-> RenderBody(res)]
        snap_html == WriteSnapshot(old.snap_html, suffix, html)
        snap_json == WriteSnapshot(old.snap_json, suffix, RenderJson(res))
    IN  [snap_html |-> snap_html,
         snap_json |-> snap_json,
         history |-> NewHistory(old.history, HistoryItem(suffix)),
         index_html |-> CopyLatest(snap_html, suffix),
         index_json |-> CopyLatest(snap_json, suffix)]

\* ---------------------------------------------------------------- main thread
workerVars == <<results_lock, wpc, localVars>>

\* Lines 308-314: start the next worker thread.
MainStartThread ==
    /\ mpc = "start"
    /\ started < thread_cnt
    /\ started' = started + 1
    /\ wpc' = [wpc EXCEPT ![started + 1] = "get"]
    /\ mpc' = IF started + 1 = thread_cnt THEN "populate" ELSE "start"
    /\ UNCHANGED <<lib, thread_cnt, registered, toPut, queueVars, shutdown, results,
                   results_lock, localVars, diskVars, now, run, histVars>>

\* Lines 316-319: put the next registered subsystem on the queue.
MainPut ==
    /\ mpc = "populate"
    /\ toPut <= Len(registered)
    /\ work_queue' = Append(work_queue, registered[toPut])
    /\ unfinished' = unfinished + 1
    /\ toPut' = toPut + 1
    /\ mpc' = IF toPut = Len(registered) THEN "join" ELSE "populate"
    /\ UNCHANGED <<lib, thread_cnt, registered, started, shutdown, results, workerVars,
                   diskVars, now, run, histVars>>

\* Line 325: work_queue.join() returns when no task is unfinished.
MainJoin ==
    /\ mpc = "join"
    /\ unfinished = 0
    /\ mpc' = "set_shutdown"
    /\ UNCHANGED <<lib, thread_cnt, registered, started, toPut, queueVars, shutdown, results,
                   workerVars, diskVars, now, run, histVars>>

\* Line 328: params['shutdown'].set()
MainSetShutdown ==
    /\ mpc = "set_shutdown"
    /\ shutdown' = TRUE
    /\ mpc' = "join_threads"
    /\ UNCHANGED <<lib, thread_cnt, registered, started, toPut, queueVars, results,
                   workerVars, diskVars, now, run, histVars>>

Ended(w) == wpc[w] \in {"returned", "dead"}

\* Lines 329-330: t.join() for every thread.
MainJoinThreads ==
    /\ mpc = "join_threads"
    /\ \A w \in 1..thread_cnt : Ended(w)
    /\ mpc' = "report"
    /\ UNCHANGED <<lib, thread_cnt, registered, started, toPut, queueVars, shutdown, results,
                   workerVars, diskVars, now, run, histVars>>

\* Lines 332-450: the report is rendered and written at the time read on
\* line 405.
MainReport ==
    /\ mpc = "report"
    /\ \E t \in now..MaxTick :
        /\ now' = t
        /\ files' = ReportFiles(files, results, Suffix(t))
    /\ mpc' = "done"
    /\ UNCHANGED <<lib, thread_cnt, registered, started, toPut, queueVars, shutdown, results,
                   workerVars, store, run, histVars>>

Main ==
    \/ MainStartThread
    \/ MainPut
    \/ MainJoin
    \/ MainSetShutdown
    \/ MainJoinThreads
    \/ MainReport

Next == Main \/ \E w \in Workers : Worker(w)

Spec == Init /\ [][Next]_vars

\* ------------------------------------------- one worker on one subsystem
\* A run with a single worker thread and subsystem 1 alone registered,
\* whose directory is any of InitDirs.
InitWorker ==
    /\ ProcessInit
    /\ lib = LibIdle
    /\ thread_cnt = 1
    /\ registered = <<1>>
    /\ store \in {[s \in Subsystems |-> IF s = 1 THEN d ELSE <<>>] : d \in InitDirs}
    /\ files = NoFiles
    /\ now = 0
    /\ run = 1

WorkerSpec == InitWorker /\ [][Next]_vars

\* ------------------------------------------ two workers on two subsystems
\* A run with two worker threads on a directory in which subsystems 2 and 3
\* are registered; subsystem 2 has a directory of an earlier crawl.
InitPool ==
    /\ ProcessInit
    /\ lib = LibIdle
    /\ thread_cnt = 2
    /\ registered = <<2, 3>>
    /\ store = [s \in Subsystems |-> IF s = 2 THEN [n \in {0} |-> 2] ELSE <<>>]
    /\ files = NoFiles
    /\ now = 0
    /\ run = 1

PoolSpec == InitPool /\ [][Next]_vars

\* ----------------------------------- the store of one subsystem over runs
\* The state of a run in which worker 1 has dequeued subsystem 1 and is
\* about to scan its directory, the main thread waiting in join().
InitStore ==
    /\ thread_cnt = 1
    /\ registered = <<1>>
    /\ mpc = "join"
    /\ started = 1
    /\ toPut = 2
    /\ work_queue = <<>>
    /\ unfinished = 1
    /\ shutdown = FALSE
    /\ results = [s \in Subsystems |-> NoResult]
    /\ results_lock = 0
    /\ wpc = [w \in Workers |-> IF w = 1 THEN "prepare" ELSE "unstarted"]
    /\ subsystem = [w \in Workers |-> IF w = 1 THEN 1 ELSE 0]
    /\ hashes = [w \in Workers |-> <<>>]
    /\ method_index = [w \in Workers |-> EmptyIndex]
    /\ skip_methods = [w \in Workers |-> FALSE]
    /\ todo = [w \in Workers |-> <<>>]
    /\ store \in {[s \in Subsystems |-> IF s = 1 THEN d ELSE <<>>] : d \in InitDirs}
    /\ files = NoFiles
    /\ now = 0
    /\ run = 1
    /\ dequeues = [s \in Subsystems |-> IF s = 1 THEN 1 ELSE 0]
    /\ fetchlog = [s \in Subsystems |-> <<>>]
    /\ listed = [s \in Subsystems |-> NotListed]
    /\ saves = <<>>
    /\ resolved = [s \in Subsystems |-> [c \in Contents |-> {}]]
    /\ lib = LibIdle

storeFrame == <<lib, thread_cnt, registered, mainVars, queueVars, shutdown, results,
                results_lock, subsystem, method_index, skip_methods, todo,
                files, now, dequeues, fetchlog, listed>>

\* Line 142: hashes = hash_wsdls(wsdl_path)
StoreScan ==
    /\ wpc[1] = "prepare"
    /\ hashes' = [hashes EXCEPT ![1] = HashWsdls(store[1])]
    /\ wpc' = [wpc EXCEPT ![1] = "loop"]
    /\ UNCHANGED <<storeFrame, store, run, saves, resolved>>

\* Line 182: wsdl_name, hashes = save_wsdl(wsdl_path, hashes, wsdl), for
\* any document.
StoreSave ==
    /\ wpc[1] = "loop"
    /\ Len(saves) < MaxSaves
    /\ \E wsdl \in Contents : \E r \in SaveWsdl(hashes[1], wsdl) :
        /\ hashes' = [hashes EXCEPT ![1] = r.hashes]
        /\ store' = IF r.wrote
                    THEN [store EXCEPT ![1] = WriteFile(@, r.name, wsdl)]
                    ELSE store
        /\ saves' = Append(saves, SaveRecord(hashes[1], wsdl, r))
        /\ resolved' = Resolve(resolved, 1, wsdl, r.name)
    /\ UNCHANGED <<storeFrame, wpc, run>>

\* The next run reaches the same subsystem: a new process, the same disk.
StoreNextRun ==
    /\ wpc[1] = "loop"
    /\ run < MaxRuns
    /\ run' = run + 1
    /\ wpc' = [wpc EXCEPT ![1] = "prepare"]
    /\ hashes' = [hashes EXCEPT ![1] = <<>>]
    /\ saves' = <<>>
    /\ UNCHANGED <<storeFrame, store, resolved>>

StoreNext == StoreScan \/ StoreSave \/ StoreNextRun

StoreSpec == InitStore /\ [][StoreNext]_vars

\* ------------------------------------------- the report files over runs
\* Result maps a crawl can end with: all subsystems ok with two methods in
\* one file; an error and empty subsystems; a timeout with skipped methods,
\* a failed method and a subsystem without entry.
SampleResults ==
    {[s \in Subsystems |->
         ResultOf(TRUE, [m \in Methods |-> IF m < 3 THEN Path(0) ELSE Absent])],
     [s \in Subsystems |->
         IF s = 1 THEN ResultOf(FALSE, EmptyIndex) ELSE ResultOf(TRUE, EmptyIndex)],
     [s \in Subsystems |->
         IF s = 1
         THEN ResultOf(TRUE, [m \in Methods |-> IF m = 1 THEN Timeout ELSE Skipped])
         ELSE IF s = 2
         THEN ResultOf(TRUE, [m \in Methods |-> IF m = 1 THEN Error ELSE Absent])
         ELSE NoResult]}

reportFrame == <<lib, thread_cnt, registered, started, toPut, queueVars, shutdown,
                 workerVars, store, histVars>>

\* Lines 308-332 as one step: the threads are started, the queue is
\* populated and drained, the workers are joined; results is what they
\* merged.
ReportCrawl ==
    /\ mpc = "start"
    /\ results' \in SampleResults
    /\ mpc' = "report"
    /\ UNCHANGED <<reportFrame, files, now, run>>

\* The next run on the same output directory: a new process (lines
\* 247-261), started at least one tick later.
ReportNextRun ==
    /\ mpc = "done"
    /\ run < MaxRuns
    /\ run' = run + 1
    /\ now < MaxTick
    /\ now' \in (now + 1)..MaxTick
    /\ results' = [s \in Subsystems |-> NoResult]
    /\ mpc' = "start"
    /\ UNCHANGED <<reportFrame, files>>

ReportNext == ReportCrawl \/ MainReport \/ ReportNextRun

ReportSpec == Init /\ [][ReportNext]_vars

\* ================================================== the xrdinfo library
\* The crawler is not running: a front end calls the library.
InitIdle ==
    /\ ProcessInit
    /\ thread_cnt = 1
    /\ registered = <<>>
    /\ store = [s \in Subsystems |-> <<>>]
    /\ files = NoFiles
    /\ now = 0
    /\ run = 1

crawlVars == <<thread_cnt, registered, mainVars, queueVars, shutdown, results,
               workerVars, diskVars, now, run, histVars>>

\* A call about to be made with the given input.
LibCalls(inputs) == {[op |-> "start", input |-> i, result |-> <<>>] : i \in inputs}

\* The call `op` has been made and has ended in `result`.
LibDone(op, result) == [lib EXCEPT !.op = op, !.result = result]

SeqsUpTo(S, n) == UNION {[1..k -> S] : k \in 0..n}

Min(S) == CHOOSE x \in S : \A y \in S : x <= y

\* How a call ends: an exception of a class with its message, or a value.
Raise(class, msg) == [kind |-> class, msg |-> msg, value |-> 0]
Return(value) == [kind |-> "return", msg |-> <<>>, value |-> value]

XrdInfoClasses ==
    {"XrdInfoError", "RequestTimeoutError", "SoapFaultError",
     "NotOpenapiServiceError", "OpenapiReadError"}

\* XrdInfoError(exc): the message of a wrapped XrdInfoError is kept, that
\* of another exception is prefixed with the name of its type; the object
\* made is a plain XrdInfoError.
XrdInfoError(exc) ==
    IF exc.kind \in XrdInfoClasses THEN Raise("XrdInfoError", exc.msg)
    ELSE Raise("XrdInfoError", <<exc.kind, ": ">> \o exc.msg)

\* SoapFaultError(msg)
SoapFaultError(text) == Raise("SoapFaultError", <<"SoapFault: ", text>>)

\* ------------------------------------------------------- SOAP responses
\* The text of a response body, cut into the pieces the library looks at:
\* the start tag and the end tag of SOAP-ENV:Envelope, a faultstring
\* element with its text, a service element of a listMethods response, a
\* MIME boundary with its part headers, the text of a WSDL document.
Tok(tag, text) == [tag |-> tag, text |-> text]
FaultTexts == {"Foo", "Bar"}
Tokens ==
    {Tok(tag, "") : tag \in {"open", "close", "service", "mime", "doc"}}
        \cup {Tok("faultstring", text) : text \in FaultTexts}

\* What requests.post may end in: a response with status 200, one with an
\* error status (raise_for_status raises HTTPError), or a timeout.
Responses ==
    {[http |-> h, text |-> x] : h \in {"ok", "error"}, x \in SeqsUpTo(Tokens, MaxTokens)}
        \cup {[http |-> "timeout", text |-> <<>>]}

\* re.search('<SOAP-ENV:Envelope.+</SOAP-ENV:Envelope>', text, re.DOTALL):
\* from the first start tag to the last end tag after it (<<>> for None).
SearchEnvelope(text) ==
    LET opens == {i \in 1..Len(text) : text[i].tag = "open"}
        closes == {j \in 1..Len(text) : text[j].tag = "close" /\ j > Min(opens)}
    IN  IF opens = {} \/ closes = {} THEN <<>>
        ELSE SubSeq(text, Min(opens), Max(closes))

\* The element depth after the first k pieces.
RECURSIVE Depth(_, _)
Depth(text, k) ==
    IF k = 0 THEN 0
    ELSE Depth(text, k - 1) +
            (CASE text[k].tag = "open" -> 1 [] text[k].tag = "close" -> -1
               [] OTHER -> 0)

\* ElementTree.fromstring succeeds: one root element, closed by the last
\* end tag and not before.
WellFormed(text) ==
    /\ text # <<>>
    /\ Depth(text, Len(text)) = 0
    /\ \A k \in 1..(Len(text) - 1) : Depth(text, k) > 0

IsFault(tok) == tok.tag = "faultstring"
IsService(tok) == tok.tag = "service"

\* root.find('.//faultstring'): the first in document order (<<>>: None).
FindFaultstring(root) == SelectSeq(root, IsFault)

\* soap_request of xrdinfo-src: (response, root) or an exception.
SoapRequest(response) ==
    LET envelope == SearchEnvelope(response.text)
    IN  IF response.http = "timeout"
        THEN Raise("RequestTimeoutError", <<"Timeout">>)
        ELSE IF response.http = "error"
        THEN XrdInfoError(Raise("HTTPError", <<"Server Error">>))
        ELSE IF envelope = <<>>
        THEN Raise("XrdInfoError", <<"SOAP envelope was not found in response">>)
        ELSE IF ~WellFormed(envelope)
        THEN Raise("XrdInfoError", <<"Received incorrect SOAP response">>)
        ELSE IF FindFaultstring(envelope) # <<>>
        THEN SoapFaultError(FindFaultstring(envelope)[1].text)
        ELSE Return(envelope)

\* methods of xrdinfo-src, consumed: the number of services yielded.
SoapMethods(response) ==
    LET r == SoapRequest(response)
    IN  IF r.kind # "return" THEN r
        ELSE Return(Len(SelectSeq(r.value, IsService)))

\* The multipart pattern of wsdl: a boundary, the envelope, a boundary, the
\* document, a boundary.
WsdlFound(text) ==
    \E a, i, j, b, c \in 1..Len(text) :
        /\ a < i /\ i < j /\ j < b /\ b + 1 < c
        /\ text[a].tag = "mime" /\ text[i].tag = "open" /\ text[j].tag = "close"
        /\ text[b].tag = "mime" /\ text[c].tag = "mime"

\* wsdl of xrdinfo-src: 1 for the document, or an exception.
SoapWsdl(response) ==
    LET r == SoapRequest(response)
    IN  IF r.kind # "return" THEN r
        ELSE IF WsdlFound(response.text) THEN Return(1)
        ELSE Raise("XrdInfoError", <<"WSDL not found">>)

\* methods of xrdinfo.py, consumed, lines 380-419: every exception raised
\* inside the try statement but requests' Timeout leaves it as
\* XrdInfoError(e).
XrdinfoMethods(response) ==
    LET envel == SearchEnvelope(response.text)
    IN  IF response.http = "timeout"
        THEN Raise("RequestTimeoutError", <<"Timeout">>)
        ELSE IF response.http = "error"
        THEN XrdInfoError(Raise("HTTPError", <<"Server Error">>))
        ELSE IF envel = <<>>
        THEN XrdInfoError(Raise("XrdInfoError", <<"Received incorrect response">>))
        ELSE IF ~WellFormed(envel)
        THEN XrdInfoError(Raise("ParseError", <<"junk after document element">>))
        ELSE IF FindFaultstring(envel) # <<>>
        THEN XrdInfoError(SoapFaultError(FindFaultstring(envel)[1].text))
        ELSE Return(Len(SelectSeq(envel, IsService)))

InitSoap == InitIdle /\ lib \in LibCalls(Responses)

SoapRequestCall ==
    /\ lib.op = "start"
    /\ lib' = LibDone("soap_request", SoapRequest(lib.input))
    /\ UNCHANGED crawlVars

SoapMethodsCall ==
    /\ lib.op = "start"
    /\ lib' = LibDone("methods", SoapMethods(lib.input))
    /\ UNCHANGED crawlVars

SoapWsdlCall ==
    /\ lib.op = "start"
    /\ lib' = LibDone("wsdl", SoapWsdl(lib.input))
    /\ UNCHANGED crawlVars

XrdinfoMethodsCall ==
    /\ lib.op = "start"
    /\ lib' = LibDone("xrdinfo.methods", XrdinfoMethods(lib.input))
    /\ UNCHANGED crawlVars

SoapNext ==
    \/ SoapRequestCall
    \/ SoapMethodsCall
    \/ SoapWsdlCall
    \/ XrdinfoMethodsCall

SoapSpec == InitSoap /\ [][SoapNext]_vars

\* ---------------------------------------------- the arguments of methods
\* The parts of an identifier: an empty and a non-empty string.
IdParts == {"", "x"}
Identifiers == SeqsUpTo(IdParts, MaxArity)
MethodsArguments == {[client |-> c, producer |-> p] : c, p \in Identifiers}

\* The request template chosen by methods: client[3] of Python is the
\* fourth part, read whenever len(client) is not 3; a client with fewer
\* parts has none (IndexError).
Template(client, producer) ==
    IF Len(client) < 3 THEN "IndexError"
    ELSE IF (Len(client) = 3 \/ client[4] = "") /\ Len(producer) = 4
    THEN "REQUEST_MEMBER_TEMPL"
    ELSE IF Len(client) = 4 /\ Len(producer) = 4 THEN "REQUEST_SUBSYSTEM_TEMPL"
    ELSE "none"

\* methods of xrdinfo-src, consumed, lines 600-610: the value is the number
\* of requests posted.
MethodsRequests(args) ==
    LET templ == Template(args.client, args.producer)
    IN  IF templ = "IndexError"
        THEN Raise("IndexError", <<"list index out of range">>)
        ELSE IF templ = "none"
        THEN Raise("XrdInfoError",
                   <<"Incorrect client or producer identifier length">>)
        ELSE Return(1)

\* methods of xrdinfo.py, consumed, lines 370-385: without a template the
\* generator returns, having yielded nothing.
XrdinfoMethodsRequests(args) ==
    LET templ == Template(args.client, args.producer)
    IN  IF templ = "IndexError"
        THEN Raise("IndexError", <<"list index out of range">>)
        ELSE IF templ = "none" THEN Return(0)
        ELSE Return(1)

InitArity == InitIdle /\ lib \in LibCalls(MethodsArguments)

MethodsArityCall ==
    /\ lib.op = "start"
    /\ lib' = LibDone("methods", MethodsRequests(lib.input))
    /\ UNCHANGED crawlVars

XrdinfoMethodsArityCall ==
    /\ lib.op = "start"
    /\ lib' = LibDone("xrdinfo.methods", XrdinfoMethodsRequests(lib.input))
    /\ UNCHANGED crawlVars

ArityNext == MethodsArityCall \/ XrdinfoMethodsArityCall

AritySpec == InitArity /\ [][ArityNext]_vars

\* --------------------------------------------------- the directory document
\* shared-params.xml: the members in document order, each with the ids of
\* its subsystem elements, and the securityServer elements, each with the
\* ids of its client elements.  The ids of the subsystems are 1, 2, ...;
\* 0 is the id of a member, -1 stands for no id.
MemberId == 0
NoId == -1
SubsystemIds == 1..NumSubsystems
ClientSets ==
    {{}, {MemberId}} \cup {{s} : s \in SubsystemIds}
        \cup {{MemberId, s} : s \in SubsystemIds}
Documents ==
    {[members |-> <<Ascending({s \in SubsystemIds : place[s] = 1}),
                    Ascending({s \in SubsystemIds : place[s] = 2})>>,
      servers |-> servers] :
        place \in [SubsystemIds -> 0..2],
        servers \in SeqsUpTo(ClientSets, MaxServers)}

\* Mutant: the servers are not limited by the client id.
SecurityServersAll(root, client_id) == root.servers

\* _security_servers(root, client_id)
SecurityServers(root, client_id) ==
    IF client_id # NoId
    THEN SelectSeq(root.servers, LAMBDA server : client_id \in server)
    ELSE root.servers

\* The subsystems yielded for the members from position m on.
RECURSIVE YieldRegistered(_, _, _)
YieldRegistered(root, m, k) ==
    IF m > Len(root.members) THEN <<>>
    ELSE IF k > Len(root.members[m]) THEN YieldRegistered(root, m + 1, 1)
    ELSE (IF SecurityServers(root, root.members[m][k]) # <<>>
          THEN <<root.members[m][k]>> ELSE <<>>)
         \o YieldRegistered(root, m, k + 1)

\* registered_subsystems(shared_params), consumed.
RegisteredSubsystems(root) == YieldRegistered(root, 1, 1)

\* The rows of one server list: 9 fields each, the server standing for its
\* owner, code and address.
ServerRows(s, servers) ==
    [j \in 1..Len(servers) |-> [subsystem |-> s, fields |-> 9, server |-> servers[j]]]

\* The row without server: the 4 fields of the subsystem.
SubsystemRow(s) == [subsystem |-> s, fields |-> 4, server |-> {}]

\* subsystems_with_server(shared_params), consumed: the rows yielded for
\* the members from position m on.  server_found guards the 4-field row.
RECURSIVE YieldWithServer(_, _, _)
YieldWithServer(root, m, k) ==
    IF m > Len(root.members) THEN <<>>
    ELSE IF k > Len(root.members[m]) THEN YieldWithServer(root, m + 1, 1)
    ELSE LET subsystem_id == root.members[m][k]
             servers == SecurityServers(root, subsystem_id)
             server_found == servers # <<>>
         IN  ServerRows(subsystem_id, servers)
                 \o (IF ~server_found THEN <<SubsystemRow(subsystem_id)>> ELSE <<>>)
                 \o YieldWithServer(root, m, k + 1)

subsystems_with_server(root) == YieldWithServer(root, 1, 1)

\* subsystemsWithServer(sharedParams) of src/python, consumed.  The 4-field
\* row is yielded in the else clause of the for loop over the servers; the
\* loop has no break, so the clause runs whenever the loop ends.
RECURSIVE YieldWithServerLegacy(_, _, _)
YieldWithServerLegacy(root, m, k) ==
    IF m > Len(root.members) THEN <<>>
    ELSE IF k > Len(root.members[m]) THEN YieldWithServerLegacy(root, m + 1, 1)
    ELSE LET subsystemId == root.members[m][k]
             servers == SelectSeq(root.servers,
                                  LAMBDA server : subsystemId \in server)
         IN  ServerRows(subsystemId, servers)
                 \o <<SubsystemRow(subsystemId)>>
                 \o YieldWithServerLegacy(root, m, k + 1)

subsystemsWithServer(root) == YieldWithServerLegacy(root, 1, 1)

InitDirectory == InitIdle /\ lib \in LibCalls(Documents)

RegisteredSubsystemsCall ==
    /\ lib.op = "start"
    /\ lib' = LibDone("registered_subsystems", RegisteredSubsystems(lib.input))
    /\ UNCHANGED crawlVars

SubsystemsWithServerCall ==
    /\ lib.op = "start"
    /\ lib' = LibDone("subsystems_with_server", subsystems_with_server(lib.input))
    /\ UNCHANGED crawlVars

SubsystemsWithServerLegacyCall ==
    /\ lib.op = "start"
    /\ lib' = LibDone("subsystemsWithServer", subsystemsWithServer(lib.input))
    /\ UNCHANGED crawlVars

DirectoryNext ==
    \/ RegisteredSubsystemsCall
    \/ SubsystemsWithServerCall
    \/ SubsystemsWithServerLegacyCall

DirectorySpec == InitDirectory /\ [][DirectoryNext]_vars

\* -------------------------------------------------------------- identifiers
\* A string is a sequence of characters; "E9" is the character U+00E9,
\* "FFFD" the replacement character, "?" any other ASCII character.
PartSamples ==
    {<<>>, <<"x">>, <<"/">>, <<"%">>, <<"E9">>, <<"%", "2", "F">>,
     <<"x", "/", "x">>, <<"2", "5">>}
PartSequences == SeqsUpTo(PartSamples, MaxParts)

HexDigits == {"2", "3", "5", "9", "A", "C", "F"}
HexValue(d) ==
    CASE d = "2" -> 2 [] d = "3" -> 3 [] d = "5" -> 5 [] d = "9" -> 9
      [] d = "A" -> 10 [] d = "C" -> 12 [] d = "F" -> 15

\* parse.quote(c, safe=''): the UTF-8 bytes of a reserved character, each
\* as '%XX'.
Quote(c) ==
    CASE c = "/" -> <<"%", "2", "F">>
      [] c = "%" -> <<"%", "2", "5">>
      [] c = "E9" -> <<"%", "C", "3", "%", "A", "9">>
      [] OTHER -> <<c>>

\* Mutant: quote with its default safe='/'.
RECURSIVE EncodePartSafeSlash(_)
EncodePartSafeSlash(part) ==
    IF part = <<>> THEN <<>>
    ELSE (IF Head(part) = "/" THEN <<"/">> ELSE Quote(Head(part)))
         \o EncodePartSafeSlash(Tail(part))

\* _encode_part(part)
RECURSIVE EncodePart(_)
EncodePart(part) ==
    IF part = <<>> THEN <<>> ELSE Quote(Head(part)) \o EncodePart(Tail(part))

\* '/'.join(map(_encode_part, items))
RECURSIVE identifier(_)
identifier(items) ==
    IF items = <<>> THEN <<>>
    ELSE IF Len(items) = 1 THEN EncodePart(items[1])
    ELSE EncodePart(Head(items)) \o <<"/">> \o identifier(Tail(items))

\* str.split('/'): one more string than there are separators.
RECURSIVE Split(_)
Split(s) ==
    IF \A i \in 1..Len(s) : s[i] # "/" THEN <<s>>
    ELSE LET i == Min({j \in 1..Len(s) : s[j] = "/"})
         IN  <<SubSeq(s, 1, i - 1)>> \o Split(SubSeq(s, i + 1, Len(s)))

\* The bytes of the '%XX' escapes a string starts with.
RECURSIVE EscapedBytes(_)
EscapedBytes(s) ==
    IF Len(s) >= 3 /\ s[1] = "%" /\ s[2] \in HexDigits /\ s[3] \in HexDigits
    THEN <<16 * HexValue(s[2]) + HexValue(s[3])>>
            \o EscapedBytes(SubSeq(s, 4, Len(s)))
    ELSE <<>>

\* bytes.decode('utf-8', 'replace')
RECURSIVE DecodeUtf8(_)
DecodeUtf8(bytes) ==
    IF bytes = <<>> THEN <<>>
    ELSE IF Len(bytes) >= 2 /\ bytes[1] = 195 /\ bytes[2] = 169
    THEN <<"E9">> \o DecodeUtf8(SubSeq(bytes, 3, Len(bytes)))
    ELSE <<(CASE bytes[1] = 47 -> "/" [] bytes[1] = 37 -> "%"
              [] bytes[1] = 50 -> "2" [] bytes[1] = 51 -> "3"
              [] bytes[1] = 53 -> "5" [] bytes[1] = 57 -> "9"
              [] bytes[1] >= 128 -> "FFFD" [] OTHER -> "?")>>
            \o DecodeUtf8(Tail(bytes))

\* parse.unquote(s): each run of escapes is decoded, the rest is kept.
RECURSIVE Unquote(_)
Unquote(s) ==
    IF s = <<>> THEN <<>>
    ELSE IF EscapedBytes(s) # <<>>
    THEN DecodeUtf8(EscapedBytes(s))
            \o Unquote(SubSeq(s, 3 * Len(EscapedBytes(s)) + 1, Len(s)))
    ELSE <<Head(s)>> \o Unquote(Tail(s))

\* list(map(parse.unquote, ident_str.split('/')))
identifier_parts(ident_str) ==
    LET segments == Split(ident_str)
    IN  [i \in 1..Len(segments) |-> Unquote(segments[i])]

InitIdentifier == InitIdle /\ lib \in LibCalls(PartSequences)

\* identifier_parts(identifier(parts))
RoundTripCall ==
    /\ lib.op = "start"
    /\ lib' = LibDone("round_trip", identifier_parts(identifier(lib.input)))
    /\ UNCHANGED crawlVars

IdentifierNext == RoundTripCall

IdentifierSpec == InitIdentifier /\ [][IdentifierNext]_vars

\* ------------------------------------------------------- REST responses
\* What requests.get may end in for a REST request: a timeout, another
\* failure of the connection, or a response with a status code and a body.
\* A body is text that is not JSON, the JSON value null, a JSON array, or a
\* JSON object with or without the keys 'message' and 'type'.  A message is
\* the sequence of its pieces when it is a string, and may be a number.
INVALID_REST == "Invalid service type: REST"
FAILED_READING == "Failed reading service description from"

Str(text) == [type |-> "string", text |-> text]
Messages ==
    {[type |-> "absent", text |-> <<>>],
     [type |-> "number", text |-> <<>>],
     Str(<<INVALID_REST>>),
     Str(<<INVALID_REST, "!">>),
     Str(<<FAILED_READING, " x">>),
     Str(<<"x: ", FAILED_READING>>),
     Str(<<"Other">>)}

Bodies ==
    {[json |-> k, message |-> [type |-> "absent", text |-> <<>>], has_type |-> FALSE] :
         k \in {"text", "null", "array"}}
        \cup {[json |-> "object", message |-> m, has_type |-> b] :
                m \in Messages, b \in BOOLEAN}

Statuses == {200, 302, 399, 400, 404, 500, 599, 600}

RestResponses ==
    {[kind |-> k, status |-> 0, body |-> CHOOSE b \in Bodies : b.json = "text"] :
         k \in {"timeout", "connection"}}
        \cup {[kind |-> "http", status |-> st, body |-> b] :
                st \in Statuses, b \in Bodies}

\* re.search('^Failed reading service description from', message)
StartsWithFailedReading(message) ==
    Len(message.text) > 0 /\ message.text[1] = FAILED_READING

\* rest_get_request(url, client_header, ...) of xrdinfo-src.
RestGetRequest(response) ==
    LET body == response.body
    IN  CASE response.kind = "timeout" ->
                 Raise("RequestTimeoutError", <<"Timeout">>)
          [] response.kind = "connection" ->
                 XrdInfoError(Raise("ConnectionError", <<"refused">>))
          [] OTHER ->
                 IF ~(400 <= response.status /\ response.status < 600)
                 THEN Return(body)
                 ELSE IF body.json = "text"
                 THEN XrdInfoError(Raise("JSONDecodeError", <<"Expecting value">>))
                 ELSE IF body.json \in {"null", "array"}
                 THEN XrdInfoError(Raise("TypeError", <<"not subscriptable">>))
                 ELSE IF body.message.type = "absent"
                 THEN XrdInfoError(Raise("KeyError", <<"message">>))
                 ELSE IF body.message = Str(<<INVALID_REST>>)
                 THEN Raise("NotOpenapiServiceError",
                            <<"Service does not have OpenAPI description">>)
                 ELSE IF body.message.type = "number"
                 THEN XrdInfoError(Raise("TypeError", <<"expected string">>))
                 ELSE IF StartsWithFailedReading(body.message)
                 THEN Raise("OpenapiReadError",
                            <<"Failed reading service OpenAPI description">>)
                 ELSE IF ~body.has_type
                 THEN XrdInfoError(Raise("KeyError", <<"type">>))
                 ELSE Raise("XrdInfoError", <<"RestError: ">> \o body.message.text)

\* The request of openapi(addr, client, service, ...) of xrdinfo.py, lines
\* 561-586.  The search for a precise error runs inside the handler of the
\* first exception and catches AttributeError, ValueError and KeyError only.
XrdinfoOpenapi(response) ==
    LET body == response.body
        generic == XrdInfoError(Raise("HTTPError", <<"status">>))
    IN  CASE response.kind = "timeout" ->
                 Raise("RequestTimeoutError", <<"Timeout">>)
          [] response.kind = "connection" ->
                 XrdInfoError(Raise("ConnectionError", <<"refused">>))
          [] OTHER ->
                 IF ~(400 <= response.status /\ response.status < 600)
                 THEN Return(body)
                 ELSE IF body.json = "text"
                 THEN generic
                 ELSE IF body.json \in {"null", "array"}
                 THEN Raise("TypeError", <<"not subscriptable">>)
                 ELSE IF body.message.type = "absent"
                 THEN generic
                 ELSE IF body.message = Str(<<INVALID_REST>>)
                 THEN Raise("NotOpenapiServiceError",
                            <<"Service does not have OpenAPI description">>)
                 ELSE IF body.message.type = "number"
                 THEN Raise("TypeError", <<"expected string">>)
                 ELSE IF StartsWithFailedReading(body.message)
                 THEN Raise("OpenapiReadError",
                            <<"Failed reading service OpenAPI description">>)
                 ELSE generic

InitRest == InitIdle /\ lib \in LibCalls(RestResponses)

RestGetRequestCall ==
    /\ lib.op = "start"
    /\ lib' = LibDone("rest_get_request", RestGetRequest(lib.input))
    /\ UNCHANGED crawlVars

XrdinfoOpenapiCall ==
    /\ lib.op = "start"
    /\ lib' = LibDone("xrdinfo.openapi", XrdinfoOpenapi(lib.input))
    /\ UNCHANGED crawlVars

RestNext == RestGetRequestCall \/ XrdinfoOpenapiCall

RestSpec == InitRest /\ [][RestNext]_vars

\* ===================================================================== claims
TimedOut(s) == \E i \in 1..Len(fetchlog[s]) : fetchlog[s][i].kind = "timeout"

C1_NoFetchAfterTimeout ==
    \A s \in Subsystems : \A i \in 1..(Len(fetchlog[s]) - 1) :
        fetchlog[s][i].kind # "timeout"

C1_SkipStep ==
    \A w \in Workers :
        (/\ wpc[w] = "loop"
         /\ todo[w] # <<>>
         /\ TimedOut(subsystem[w])
         /\ todo'[w] # todo[w] \/ wpc'[w] # wpc[w])
        => /\ fetchlog' = fetchlog
           /\ store' = store
           /\ method_index'[w] =
                IF method_index[w][Head(todo[w])] = Absent
                THEN [method_index[w] EXCEPT ![Head(todo[w])] = Skipped]
                ELSE method_index[w]

\* C1: once a getWsdl fetch of a subsystem has timed out, no further getWsdl
\* request is made for that subsystem, and every method processed after it
\* that is not yet in the method index is recorded as SKIPPED, the entries
\* already in the index staying as they are.
C1_CircuitBreaker == []C1_NoFetchAfterTimeout /\ [][C1_SkipStep]_vars

C1_Witness ==
    \E w \in Workers :
        /\ method_index[w][1] = Timeout
        /\ method_index[w][2] = Skipped
        /\ method_index[w][3] = Skipped

\* No step is possible although the report has not been written.
RunCanProceed == mpc = "done" \/ ENABLED Next

ErrorEntry == ResultOf(FALSE, EmptyIndex)

\* C2: when the listMethods discovery of a subsystem has failed, the run
\* still reaches the report, and the final result map holds an error entry
\* for that subsystem.
C2_DiscoveryFailureIsolated ==
    (\E s \in Subsystems : listed[s].state = "fail")
        => /\ RunCanProceed
           /\ mpc \in {"report", "done"} =>
                 \A s \in Subsystems :
                     listed[s].state = "fail" => results[s] = ErrorEntry

\* C3: whatever fails while a subsystem is processed, the run goes on until
\* the queue is drained, the workers are joined and the report is written:
\* it is never left without a step to take before the report is done.
C3_RunCompletes == RunCanProceed

Writes(i) == IF saves[i].wrote THEN 1 ELSE 0

\* C4 as stated: two consecutive save_wsdl calls with the same content
\* return the same name and write a file exactly once, the second call
\* changing neither the directory nor the index.
C4_ExactlyOneWrite ==
    \A i \in 1..(Len(saves) - 1) :
        saves[i].content = saves[i + 1].content
            => /\ saves[i].name = saves[i + 1].name
               /\ Writes(i) + Writes(i + 1) = 1
               /\ ~saves[i + 1].changed

\* C4 (amended): two consecutive save_wsdl calls with the same content
\* return the same name; the second call writes nothing and changes neither
\* the directory nor the index; the first call writes a file exactly when
\* the content was not in the index before it.
C4_AtMostOneWrite ==
    \A i \in 1..(Len(saves) - 1) :
        saves[i].content = saves[i + 1].content
            => /\ saves[i].name = saves[i + 1].name
               /\ ~saves[i + 1].wrote
               /\ ~saves[i + 1].changed
               /\ saves[i].wrote <=> ~saves[i].known

C4_Witness ==
    \E i \in 1..(Len(saves) - 1) :
        /\ saves[i].content = saves[i + 1].content
        /\ saves[i].wrote

\* C5: no two stored files of a subsystem directory have equal content, and
\* a content is resolved to one filename only, that of the file holding it,
\* over all saves of all runs.
C5_OneCopyPerContent ==
    \A s \in Subsystems :
        /\ \A n1, n2 \in DOMAIN store[s] :
               store[s][n1] = store[s][n2] => n1 = n2
        /\ \A c \in Contents :
               /\ Cardinality(resolved[s][c]) <= 1
               /\ \A n \in resolved[s][c] :
                      n \in DOMAIN store[s] /\ store[s][n] = c

C5_Witness ==
    /\ run > 1
    /\ Cardinality(DOMAIN store[1]) >= 3
    /\ \E i \in 1..Len(saves) : ~saves[i].wrote

IsItem(line) == line.tag = "item"
Items(lines) == SelectSeq(lines, IsItem)

C6_ReportStep ==
    (mpc = "report" /\ mpc' = "done")
        => /\ Items(files'.history) =
                <<HistoryItem(Suffix(now'))>> \o Items(files.history)
           /\ Suffix(now') \in DOMAIN files'.snap_html

\* C6: each completed run puts the link to its snapshot into history.html
\* before the links of all earlier runs, which stay in their order.
C6_HistoryNewestFirst == [][C6_ReportStep]_vars

C6_Witness ==
    /\ mpc = "done"
    /\ Len(Items(files.history)) = 3
    /\ Items(files.history)[1] # Items(files.history)[3]

\* C7: after a completed run index.html and index.json are copies of the
\* snapshot of that run and hold the result map of that run alone.
C7_LatestIsThisRun ==
    mpc = "done"
        => /\ files.index_html = <<files.snap_html[Suffix(now)]>>
           /\ files.index_json = <<files.snap_json[Suffix(now)]>>
           /\ files.index_json[1] = RenderJson(results)
           /\ files.index_html[1].body = RenderBody(results)
           /\ \A i \in DOMAIN files.index_json[1] :
                LET entry == files.index_json[1][i]
                IN  /\ results[entry.subsystem].present
                    /\ \A j \in DOMAIN entry.methods :
                         results[entry.subsystem].methods[entry.methods[j].method]
                             # Absent

C7_Witness ==
    /\ mpc = "done"
    /\ run > 1
    /\ \E x \in DOMAIN files.snap_json : files.snap_json[x] # files.index_json[1]

C8_SnapshotsKept ==
    \A x \in DOMAIN files.snap_json :
        /\ x \in DOMAIN files'.snap_json
        /\ files'.snap_json[x] = files.snap_json[x]
        /\ files'.snap_html[x] = files.snap_html[x]

\* C8: a run never modifies the snapshot files index_<timestamp>.* that an
\* earlier run has written.
C8_SnapshotsImmutable == [][C8_SnapshotsKept]_vars

\* C9: every queued subsystem is dequeued once, and once the main thread
\* is past work_queue.join() the queue is empty and the result map has an
\* entry for every queued subsystem.
C9_OneEntryPerSubsystem ==
    /\ \A s \in Subsystems : dequeues[s] <= 1
    /\ mpc \in {"set_shutdown", "join_threads", "report", "done"}
          => /\ work_queue = <<>>
             /\ \A i \in 1..Len(registered) :
                    dequeues[registered[i]] = 1 /\ results[registered[i]].present

\* C10: a worker thread ends only by returning from the dequeue step, with
\* the shutdown event set, and it reaches task_done for a subsystem only
\* after the result of that subsystem has been merged.
C10_FinishesBeforeExit ==
    \A w \in Workers :
        /\ Ended(w) => wpc[w] = "returned" /\ shutdown
        /\ wpc[w] \in {"task_done", "task_done_exit"}
              => results[subsystem[w]].present

\* A worker holds a dequeued subsystem that has not passed task_done.
InFlight(w) ==
    wpc[w] \in {"prepare", "discover", "loop", "merge_ok", "merge_err",
                "write_ok", "write_err", "task_done", "task_done_exit"}

\* C11: the shutdown event is set only when the queue is empty and every
\* dequeued subsystem has merged its result and passed task_done; and no
\* worker thread has ended while a subsystem is queued or in flight.
C11_ShutdownAfterDrain ==
    /\ shutdown =>
          /\ work_queue = <<>>
          /\ unfinished = 0
          /\ \A w \in Workers : ~InFlight(w)
          /\ \A s \in Subsystems : dequeues[s] > 0 => results[s].present
    /\ (\E w \in Workers : Ended(w)) =>
          /\ work_queue = <<>>
          /\ \A v \in Workers : ~InFlight(v)

\* The worker is inside `with params['results_lock']`.
Holding(w) == wpc[w] \in {"write_ok", "write_err"}

\* The worker takes a step.
Steps(w) == wpc'[w] # wpc[w] \/ todo'[w] # todo[w]

C12_LockInv ==
    /\ Cardinality({w \in Workers : Holding(w)}) <= 1
    /\ \A w \in Workers : Holding(w) <=> results_lock = w

C12_Step ==
    /\ results' # results =>
          \E w \in Workers :
              /\ Holding(w)
              /\ results_lock = w
              /\ Steps(w)
              /\ \A s \in Subsystems \ {subsystem[w]} : results'[s] = results[s]
    /\ (listed' # listed \/ fetchlog' # fetchlog \/ store' # store) =>
          \E w \in Workers :
              /\ wpc[w] \in {"discover", "loop"}
              /\ Steps(w)
              /\ results_lock # w

\* C12: at most one worker is inside the locked merge at any time; the
\* result map is written only by the worker holding the lock, for its own
\* subsystem; and a worker making a listMethods or getWsdl request or
\* writing a document file does not hold the lock.
C12_LockDiscipline == []C12_LockInv /\ [][C12_Step]_vars

C12_Witness ==
    \E w, v \in Workers :
        /\ Holding(w)
        /\ wpc[v] \in {"merge_ok", "merge_err"}
        /\ fetchlog[subsystem[w]] # <<>>

C13_Inv ==
    \A w1, w2 \in Workers :
        (w1 # w2 /\ InFlight(w1) /\ InFlight(w2)) => subsystem[w1] # subsystem[w2]

C13_Step ==
    \A s \in Subsystems :
        (listed'[s] # listed[s] \/ fetchlog'[s] # fetchlog[s] \/ store'[s] # store[s])
            => \E w \in Workers :
                   /\ subsystem[w] = s
                   /\ Steps(w)
                   /\ \A v \in Workers \ {w} : subsystem[v] # s /\ ~Steps(v)

\* C13: two workers never hold the same subsystem at the same time, so the
\* directory and the hash index of a subsystem are read and written by one
\* worker only, and every request for a subsystem is made by that worker,
\* one request per step.
C13_Partitioned == []C13_Inv /\ [][C13_Step]_vars

C13_Witness ==
    \E w1, w2 \in Workers :
        /\ w1 # w2
        /\ wpc[w1] = "loop" /\ todo[w1] # <<>>
        /\ wpc[w2] = "loop" /\ todo[w2] # <<>>

\* Something has failed while the subsystem was processed.
FailedIn(s) ==
    \/ listed[s].state # "ok"
    \/ \E i \in 1..Len(fetchlog[s]) : fetchlog[s][i].kind = "none"

\* C14: a failure while a subsystem is processed never ends the worker
\* thread, and the subsystem has an error entry in the result map when the
\* worker reaches task_done.
C14_FailuresCaught ==
    \A w \in Workers :
        /\ wpc[w] \notin {"task_done_exit", "dead"}
        /\ (wpc[w] = "task_done" /\ FailedIn(subsystem[w]))
              => results[subsystem[w]] = ErrorEntry

\* The response envelope: from the first start tag to the end tag that
\* closes it (<<>> when there is none).
ResponseEnvelope(text) ==
    LET opens == {i \in 1..Len(text) : text[i].tag = "open"}
        ends == {j \in 1..Len(text) :
                    /\ j > Min(opens)
                    /\ WellFormed(SubSeq(text, Min(opens), j))}
    IN  IF opens = {} \/ ends = {} THEN <<>>
        ELSE SubSeq(text, Min(opens), Min(ends))

Contains(msg, text) == \E i \in 1..Len(msg) : msg[i] = text

\* C15: when a response with status 200 carries an envelope with a
\* faultstring element, whatever surrounds the envelope, each of
\* soap_request, methods and wsdl fails with a SoapFaultError whose message
\* contains the text of the faultstring.
C15_FaultSurfaced ==
    (/\ lib.op \in {"soap_request", "methods", "wsdl", "xrdinfo.methods"}
     /\ lib.input.http = "ok"
     /\ FindFaultstring(ResponseEnvelope(lib.input.text)) # <<>>)
        => /\ lib.result.kind = "SoapFaultError"
           /\ Contains(lib.result.msg,
                       FindFaultstring(ResponseEnvelope(lib.input.text))[1].text)

BadArity(args) == Len(args.client) \notin {3, 4} \/ Len(args.producer) # 4

\* C16: methods, consumed with a client identifier of another arity than 3
\* or 4 or a producer identifier of another arity than 4, fails with an
\* XrdInfoError and posts no request.
C16_ArityValidated ==
    (lib.op \in {"methods", "xrdinfo.methods"} /\ BadArity(lib.input))
        => lib.result.kind = "XrdInfoError" /\ lib.result.value = 0

Flat(members) == members[1] \o members[2]
Occurrences(seq, x) == Cardinality({i \in 1..Len(seq) : seq[i] = x})

\* C17: registered_subsystems yields a subsystem of the document exactly
\* once when some securityServer element has its id as a client, and not
\* at all otherwise; it yields nothing else.
C17_RegisteredFilter ==
    lib.op = "registered_subsystems" =>
        /\ \A s \in SubsystemIds :
               Occurrences(lib.result, s) =
                   IF /\ Occurrences(Flat(lib.input.members), s) = 1
                      /\ \E i \in 1..Len(lib.input.servers) : s \in lib.input.servers[i]
                   THEN 1 ELSE 0
        /\ \A i \in 1..Len(lib.result) : lib.result[i] \in SubsystemIds

C17_Witness ==
    /\ lib.op = "registered_subsystems"
    /\ Len(lib.input.servers) = 2
    /\ \E s \in SubsystemIds :
           /\ s \in lib.input.servers[1] /\ s \in lib.input.servers[2]
           /\ Occurrences(lib.result, s) = 1
    /\ \E s \in SubsystemIds :
           /\ Occurrences(Flat(lib.input.members), s) = 1
           /\ Occurrences(lib.result, s) = 0

\* C18 as stated: identifier_parts(identifier(parts)) = parts for every
\* sequence of parts, of any length.
C18_RoundTrip == lib.op = "round_trip" => lib.result = lib.input

\* C18 (amended): identifier_parts(identifier(parts)) = parts for every
\* sequence of at least one part, whatever the parts contain; of the empty
\* sequence it makes the sequence of one empty part.
C18_RoundTripNonEmpty ==
    lib.op = "round_trip" =>
        lib.result = IF lib.input = <<>> THEN <<<<>>>> ELSE lib.input

C18_Witness ==
    /\ lib.op = "round_trip"
    /\ lib.input = <<<<"x", "/", "x">>, <<>>, <<"%", "2", "F">>>>
    /\ lib.result = lib.input

DiscoveryFailed(s) == listed[s].state = "fail"

C19_Inv ==
    \A s \in Subsystems :
        DiscoveryFailed(s) =>
            /\ fetchlog[s] = <<>>
            /\ \A w \in Workers :
                   subsystem[w] = s =>
                       /\ wpc[w] \in {"merge_err", "write_err", "task_done"}
                       /\ method_index[w] = EmptyIndex
            /\ (\A w \in Workers :
                    subsystem[w] = s => wpc[w] = "task_done")
                  => results[s] = ErrorEntry

C19_Step ==
    \A s \in Subsystems :
        (DiscoveryFailed(s) \/ listed'[s].state = "fail")
            => store'[s] = store[s] /\ fetchlog'[s] = fetchlog[s]

\* C19: when the listMethods call of a subsystem has failed, no getWsdl
\* request is made for the subsystem and no file is stored, no method entry
\* (TIMEOUT or other) is recorded, and the subsystem is merged with
\* ok=False and an empty method index.
C19_DiscoveryFailure == []C19_Inv /\ [][C19_Step]_vars

C19_Witness ==
    /\ DiscoveryFailed(1)
    /\ results[1] = ErrorEntry
    /\ store[1] # <<>>
    /\ wpc[1] = "get"

C20_Step ==
    \A w \in Workers :
        (wpc[w] = "loop" /\ todo[w] # <<>> /\ Steps(w)) =>
            LET s == subsystem[w]
                m == Head(todo[w])
                n == Len(fetchlog[s])
            IN  /\ (Len(fetchlog'[s]) = n + 1 /\ fetchlog'[s][n + 1].kind = "error")
                      => /\ method_index'[w] = [method_index[w] EXCEPT ![m] = Error]
                         /\ MethodStatus(method_index'[w][m]) = "ERROR"
                         /\ skip_methods'[w] = FALSE
                         /\ store' = store
                         /\ hashes' = hashes
                         /\ wpc'[w] = "loop"
                /\ (/\ n > 0
                    /\ fetchlog[s][n].kind = "error"
                    /\ method_index[w][m] = Absent)
                      => /\ Len(fetchlog'[s]) = n + 1
                         /\ fetchlog'[s][n + 1].method = m

\* C20: a getWsdl fetch that fails with an XrdInfoError other than a
\* timeout records ERROR for the method, stores nothing, leaves the
\* circuit breaker open, and the loop goes on: the next method not yet in
\* the index is fetched.
C20_ErrorContinues == [][C20_Step]_vars

C20_Witness ==
    \E w \in Workers :
        /\ wpc[w] = "loop"
        /\ Len(fetchlog[subsystem[w]]) = 2
        /\ fetchlog[subsystem[w]][1].kind = "error"
        /\ fetchlog[subsystem[w]][2].kind = "doc"
        /\ method_index[w][fetchlog[subsystem[w]][1].method] = Error

\* The operations wsdl_methods yields for a document, as a set.
Describes(c) == {WsdlMethods(c).ops[i] : i \in 1..Len(WsdlMethods(c).ops)}

\* The loop step of worker w made a getWsdl request that returned a document.
FetchedDoc(w) ==
    LET s == subsystem[w]
        n == Len(fetchlog[s])
    IN  /\ wpc[w] = "loop"
        /\ Len(fetchlog'[s]) = n + 1
        /\ fetchlog'[s][n + 1].kind = "doc"

\* The step took its file name and its hash index from one save_wsdl call r
\* on the document c, and wrote at most the file of that call.
SavedOnce(w, c, r) ==
    /\ hashes'[w] = r.hashes
    /\ store' = IF r.wrote
                THEN [store EXCEPT ![subsystem[w]] = WriteFile(@, r.name, c)]
                ELSE store

C21_StepAsStated ==
    \A w \in Workers :
        FetchedDoc(w) =>
            LET c == fetchlog'[subsystem[w]][Len(fetchlog[subsystem[w]]) + 1].doc
            IN  \E r \in SaveWsdl(hashes[w], c) :
                    /\ SavedOnce(w, c, r)
                    /\ \A op \in Describes(c) :
                           method_index'[w][op] = Path(r.name)

\* C21 as stated: after a successful getWsdl fetch the document is passed
\* to save_wsdl once and every operation the document describes is indexed
\* with the one name save_wsdl returned.
C21_AllOperationsIndexed == [][C21_StepAsStated]_vars

C21_Step ==
    \A w \in Workers :
        FetchedDoc(w) =>
            LET s == subsystem[w]
                m == Head(todo[w])
                c == fetchlog'[s][Len(fetchlog[s]) + 1].doc
            IN  \E r \in SaveWsdl(hashes[w], c) :
                    /\ SavedOnce(w, c, r)
                    /\ \A op \in Describes(c) \ {m} :
                           method_index'[w][op] = Path(r.name)
                    /\ \A op \in Methods \ (Describes(c) \cup {m}) :
                           method_index'[w][op] = method_index[w][op]
                    /\ method_index'[w][m] =
                           IF WsdlMethods(c).fails THEN Error
                           ELSE IF m \in Describes(c) THEN Path(r.name)
                           ELSE method_index[w][m]

\* C21 (amended): after a successful getWsdl fetch the document is passed
\* to save_wsdl once; every operation wsdl_methods yields is indexed with
\* the one name save_wsdl returned, and no other entry changes, when
\* wsdl_methods ends without an error; when it raises, the operations
\* yielded before the error are indexed so, except that the entry of the
\* requested method is set to ERROR.
C21_DocumentIndexed == [][C21_Step]_vars

C21_Witness ==
    \E w \in Workers :
        /\ wpc[w] = "loop"
        /\ Len(fetchlog[subsystem[w]]) = 1
        /\ fetchlog[subsystem[w]][1] = [method |-> 1, kind |-> "doc", doc |-> 1]
        /\ method_index[w][1] = Path(1)
        /\ method_index[w][2] = Path(1)
        /\ store[subsystem[w]] = [n \in {0, 1} |-> IF n = 0 THEN 2 ELSE 1]

\* The loop step of worker w that takes the next method off its list.
LoopStep(w) == wpc[w] = "loop" /\ todo[w] # <<>> /\ Steps(w)

C22_Step ==
    \A w \in Workers :
        LoopStep(w) =>
            LET s == subsystem[w]
                m == Head(todo[w])
            IN  /\ method_index[w][m] # Absent
                    => /\ fetchlog'[s] = fetchlog[s]
                       /\ method_index'[w] = method_index[w]
                       /\ store' = store
                       /\ hashes' = hashes
                       /\ skip_methods' = skip_methods
                       /\ todo'[w] = Tail(todo[w])
                /\ fetchlog'[s] # fetchlog[s]
                    => /\ method_index[w][m] = Absent
                       /\ fetchlog'[s][Len(fetchlog'[s])].method = m

\* C22: a discovered method that is already a key of the method index when
\* its turn comes is not fetched, and the step that passes over it changes
\* neither its entry nor any other; every getWsdl request is for a method
\* that was not yet a key.
C22_IndexedNotFetched == [][C22_Step]_vars

C22_Witness ==
    \E w \in Workers :
        /\ wpc[w] = "loop"
        /\ listed[subsystem[w]].list = <<2, 1>>
        /\ todo[w] = <<>>
        /\ Len(fetchlog[subsystem[w]]) = 1
        /\ fetchlog[subsystem[w]][1].method = 1
        /\ method_index[w][2].kind = "PATH"

\* The getWsdl requests made for method m of subsystem s.
Requests(s, m) == {i \in 1..Len(fetchlog[s]) : fetchlog[s][i].method = m}

\* C23: within one run no subsystem is taken for discovery more than once
\* (one listMethods request at most) and no method identifier of a
\* subsystem is requested by getWsdl more than once, whatever the outcomes,
\* the documents and the repetitions in the discovery response.
C23_AtMostOneRequest ==
    \A s \in Subsystems :
        /\ dequeues[s] <= 1
        /\ \A m \in Methods : Cardinality(Requests(s, m)) <= 1

\* The keys of a method index.
Keys(index) == {m \in Methods : index[m] # Absent}

\* The status the claim gives to an index value.
StatusOfValue(cell) ==
    CASE cell.kind = "PATH" -> "OK"
      [] cell.kind = "TIMEOUT" -> "TIMEOUT"
      [] cell.kind = "SKIPPED" -> "SKIPPED"
      [] OTHER -> "ERROR"

\* The method lines of one subsystem of the report agree with its index:
\* one line per key, with the status of the value and the path when OK.
MethodLinesAgree(lines, index) ==
    /\ Len(lines) = Cardinality(Keys(index))
    /\ \A m \in Keys(index) :
           \E j \in DOMAIN lines :
               /\ lines[j].method = m
               /\ lines[j].methodStatus = StatusOfValue(index[m])
               /\ lines[j].wsdl = IF index[m].kind = "PATH"
                                  THEN index[m].file ELSE -1

\* C24: in the report just written, a subsystem is shown as ok iff its
\* result is ok with a non-empty method index, as empty iff it is ok with
\* an empty index, as error iff it is not ok; a method is reported OK iff
\* its value is a stored path, and TIMEOUT, SKIPPED or ERROR when its
\* value is that sentinel (ERROR for the empty value).
C24_ReportStatuses ==
    mpc = "done" =>
        LET body == files.index_html[1].body
            json == files.index_json[1]
        IN  /\ Len(body) = Cardinality({s \in Subsystems : results[s].present})
            /\ Len(json) = Len(body)
            /\ \A i \in DOMAIN body :
                   LET r == results[body[i].subsystem]
                   IN  /\ r.present
                       /\ json[i].subsystem = body[i].subsystem
                       /\ body[i].badge = "ok" <=> (r.ok /\ Keys(r.methods) # {})
                       /\ body[i].badge = "empty" <=> (r.ok /\ Keys(r.methods) = {})
                       /\ body[i].badge = "error" <=> ~r.ok
                       /\ json[i].subsystemStatus = "ERROR" <=> ~r.ok
                       /\ MethodLinesAgree(body[i].methods, r.methods)
                       /\ MethodLinesAgree(json[i].methods, r.methods)

C24_Witness ==
    /\ mpc = "done"
    /\ run > 1
    /\ results[1].ok /\ results[1].methods[1] = Timeout
    /\ results[1].methods[2] = Skipped
    /\ results[2].ok /\ results[2].methods[1] = Error
    /\ ~results[3].present
    /\ Len(files.index_json[1]) = 2

\* The rows of `rows` with n fields for subsystem s.
Rows(rows, s, n) ==
    {i \in 1..Len(rows) : rows[i].subsystem = s /\ rows[i].fields = n}

\* The servers of the document that list s as a client.
ServersOf(root, s) == {i \in 1..Len(root.servers) : s \in root.servers[i]}

\* C25: subsystems_with_server and the legacy subsystemsWithServer yield,
\* for each subsystem of the document, one 9-field row per security server
\* that lists it as a client, and one 4-field row iff no server lists it.
C25_RowsPerServer ==
    lib.op \in {"subsystems_with_server", "subsystemsWithServer"} =>
        \A s \in SubsystemIds :
            Occurrences(Flat(lib.input.members), s) = 1 =>
                /\ Cardinality(Rows(lib.result, s, 9))
                       = Cardinality(ServersOf(lib.input, s))
                /\ Cardinality(Rows(lib.result, s, 4))
                       = IF ServersOf(lib.input, s) = {} THEN 1 ELSE 0

\* The response of the call is a failure: no response, or a 4xx/5xx status.
RestFailed(response) ==
    response.kind # "http" \/ (400 <= response.status /\ response.status < 600)

\* The error body is a JSON object with a string message.
HasMessage(response) ==
    /\ response.kind = "http"
    /\ response.body.json = "object"
    /\ response.body.message.type = "string"

\* The one result the claim gives to a failed request.
RestErrorClass(response) ==
    IF response.kind = "timeout" THEN "RequestTimeoutError"
    ELSE IF HasMessage(response) /\ response.body.message.text = <<INVALID_REST>>
    THEN "NotOpenapiServiceError"
    ELSE IF HasMessage(response) /\ StartsWithFailedReading(response.body.message)
    THEN "OpenapiReadError"
    ELSE "XrdInfoError"

\* C26: a REST request that fails ends in exactly the exception the claim
\* names for its outcome (RequestTimeoutError, NotOpenapiServiceError,
\* OpenapiReadError, else a plain XrdInfoError), a request that does not
\* fail returns, and no exception outside the XrdInfoError family escapes.
C26_RestErrorMapping ==
    lib.op \in {"rest_get_request", "xrdinfo.openapi"} =>
        /\ lib.result.kind \in XrdInfoClasses \cup {"return"}
        /\ lib.result.kind =
               IF RestFailed(lib.input) THEN RestErrorClass(lib.input) ELSE "return"

\* The identifiers of the discovery response of subsystem s.
Discovered(s) == {listed[s].list[i] : i \in 1..Len(listed[s].list)}

\* C27: in the result of a subsystem merged with ok=True every method
\* identifier of its listMethods response is a key of the method index.
C27_DiscoveredAreKeys ==
    \A s \in Subsystems :
        (results[s].present /\ results[s].ok) =>
            \A m \in Discovered(s) : results[s].methods[m] # Absent

\* At most one TIMEOUT entry, and every SKIPPED entry after a TIMEOUT entry.
BreakerShape(index) ==
    /\ Cardinality({m \in Methods : index[m] = Timeout}) <= 1
    /\ \A m \in Methods :
           index[m] = Skipped =>
               \E t \in Methods : index[t] = Timeout /\ t < m

C28_Inv ==
    /\ \A s \in Subsystems : results[s].present => BreakerShape(results[s].methods)
    /\ \A w \in Workers : BreakerShape(method_index[w])

C28_Step ==
    \A w \in Workers :
        (wpc[w] \in {"loop", "merge_ok", "write_ok"}) =>
            \A m \in Methods :
                /\ method_index[w][m] \in {Timeout, Skipped}
                       => method_index'[w][m] = method_index[w][m]
                /\ (wpc[w] = "write_ok" /\ wpc'[w] # wpc[w]
                        /\ method_index[w][m] \in {Timeout, Skipped})
                       => results'[subsystem[w]].methods[m] = method_index[w][m]

\* C28: a method index, while it is built and in the result, has at most
\* one TIMEOUT entry, and SKIPPED entries only for identifiers that sort
\* after the identifier of a TIMEOUT entry; an entry set to TIMEOUT or
\* SKIPPED keeps its value through the rest of the processing of the
\* subsystem and into the result.
C28_BreakerEntries == []C28_Inv /\ [][C28_Step]_vars

C28_Witness ==
    /\ results[1].present /\ results[1].ok
    /\ listed[1].list = <<3, 1, 2>>
    /\ results[1].methods[1] = Error
    /\ results[1].methods[2] = Timeout
    /\ results[1].methods[3] = Skipped

C29_Step ==
    \A s \in Subsystems :
        /\ \A n \in DOMAIN store[s] :
               n \in DOMAIN store'[s] /\ store'[s][n] = store[s][n]
        /\ store'[s] # store[s] =>
               \E w \in Workers :
                   LET new_file == Max(DOMAIN hashes[w] \cup {-1}) + 1
                   IN  /\ subsystem[w] = s
                       /\ new_file \notin DOMAIN store[s]
                       /\ DOMAIN store'[s] = DOMAIN store[s] \cup {new_file}
                       /\ \A c \in Contents : store'[s][new_file] = c
                              => \A n \in DOMAIN hashes[w] : hashes[w][n] # MD5(c)

\* C29: save_wsdl never overwrites or deletes a stored file: every file of
\* the directory keeps its name and content through every save and every
\* run, and a document with new content is written under the number one
\* greater than the largest number of the index, which no file has.
C29_NeverOverwrites == [][C29_Step]_vars

C29_Witness ==
    /\ run > 1
    /\ 3 \in DOMAIN store[1]
    /\ Cardinality(DOMAIN store[1]) >= 3
    /\ \E i \in 1..Len(saves) : saves[i].wrote /\ saves[i].name > 3

C30_Inv ==
    \A s \in Subsystems :
        (results[s].present /\ ~results[s].ok) => results[s].methods = EmptyIndex

C30_Step ==
    \A w \in Workers :
        (wpc[w] \in {"merge_err", "write_err"}) =>
            /\ store' = store
            /\ (wpc[w] = "write_err" /\ wpc'[w] # wpc[w])
                   => results'[subsystem[w]] = ResultOf(FALSE, EmptyIndex)

\* C30: every result entry with ok=False has an empty method index; when
\* an exception ends the processing of a subsystem after methods were
\* fetched and indexed, the entries made so far are not in the result and
\* the files stored so far stay in the directory.
C30_ErrorDiscardsIndex == []C30_Inv /\ [][C30_Step]_vars

C30_Witness ==
    \E w \in Workers :
        /\ wpc[w] = "task_done"
        /\ subsystem[w] = 1
        /\ results[1] = ResultOf(FALSE, EmptyIndex)
        /\ method_index[w][1].kind = "PATH"
        /\ Len(fetchlog[1]) = 2
        /\ fetchlog[1][1].kind = "doc"
        /\ fetchlog[1][2].kind = "none"
        /\ \E n \in DOMAIN store[1] : store[1][n] = fetchlog[1][1].doc
====
